---- MODULE Spec2Model ----
(***************************************************************************)
(* Model of the gesture classifier (detect_gesture) and the round resolver *)
(* (GameLogic.determine_winner) of src/rps.py.                             *)
(*                                                                         *)
(* Both are pure functions.  A state is one call of one of them: its       *)
(* arguments, the position of the call (entry, returned, raised), and what *)
(* the call produced (return value, the exception, the locals it built).   *)
(*                                                                         *)
(* Coordinates are fixed-point numbers in hundredths of the normalised     *)
(* image unit: y = 45 stands for 0.45, the valid range [0,1] is 0..100 and *)
(* the margin 0.05 is 5.  The coordinate values of the model are ones for  *)
(* which the binary floating-point comparison of the source and the        *)
(* fixed-point comparison agree.  Python's None is the string "None".      *)
(* A Python index i is the TLA+ index i + 1.                               *)
(***************************************************************************)
EXTENDS Integers, Sequences, FiniteSets

VARIABLES call, pc, landmarks, game_mode, player_choice, ai_choice,
          ret, raised, extended, victories

vars == <<call, pc, landmarks, game_mode, player_choice, ai_choice,
          ret, raised, extended, victories>>

----------------------------------------------------------------------------
(* Bounds of the explored inputs *)

\* how many landmarks a landmark list may lack
MissingMax == 1
\* how many landmarks a landmark list may have in excess
ExtraMax == 1

\* number of landmarks of a hand: the highest index read is 20
NumLandmarks == 21
\* valid normalised coordinates, in hundredths
CoordMin == 0
CoordMax == 100

\* y values of a fingertip: out of range above the frame, clearly above the
\* knuckle, exactly at (knuckle 50) - margin, out of range below the frame
TipYs == {0 - 10, 40, 45, 105}
\* y values of a knuckle (MCP): mid-frame, out of range below the frame
McpYs == {50, 110}
\* y of the landmarks the classifier never reads
RestY == 50

None == "None"
NoReturn == "<no return>"
NoError == "<no error>"
NoLocals == <<>>
NoTable == <<>>

GameModes == {"RPS", "RPSLS"}
\* the labels a caller may pass to the resolver: the five gestures, an
\* undetected gesture and a string that is no gesture
Labels == {"Rock", "Paper", "Scissors", "Lizard", "Spock", None, "Fist"}

Range(s) == {s[i] : i \in DOMAIN s}

----------------------------------------------------------------------------
(* GameLogic *)

choices ==
    [RPS |-> <<"Rock", "Paper", "Scissors">>,
     RPSLS |-> <<"Rock", "Paper", "Scissors", "Lizard", "Spock">>]

\* Python's `x in list`
In(x, list) == \E i \in DOMAIN list : list[i] = x

\* a table in which Paper and Scissors defeat each other
victories_table_mutual(mode) ==
    IF mode = "RPSLS"
    THEN [Rock |-> <<"Scissors", "Lizard">>,
          Paper |-> <<"Rock", "Spock">>,
          Scissors |-> <<"Paper", "Lizard">>,
          Lizard |-> <<"Spock", "Paper">>,
          Spock |-> <<"Scissors", "Rock">>]
    ELSE [Rock |-> <<"Scissors">>,
          Paper |-> <<"Scissors">>,
          Scissors |-> <<"Paper">>]

\* a table whose Lizard entry lost a gesture
victories_table_short(mode) ==
    IF mode = "RPSLS"
    THEN [Rock |-> <<"Scissors", "Lizard">>,
          Paper |-> <<"Rock", "Spock">>,
          Scissors |-> <<"Paper", "Lizard">>,
          Lizard |-> <<"Spock">>,
          Spock |-> <<"Scissors", "Rock">>]
    ELSE [Rock |-> <<"Scissors">>,
          Paper |-> <<"Rock">>,
          Scissors |-> <<"Paper">>]

victories_table(mode) ==
    IF mode = "RPSLS"
    THEN [Rock |-> <<"Scissors", "Lizard">>,
          Paper |-> <<"Rock", "Spock">>,
          Scissors |-> <<"Paper", "Lizard">>,
          Lizard |-> <<"Spock", "Paper">>,
          Spock |-> <<"Scissors", "Rock">>]
    ELSE [Rock |-> <<"Scissors">>,
          Paper |-> <<"Rock">>,
          Scissors |-> <<"Paper">>]

\* line 51 testing the player's gesture only
determine_winner_player_only(player, ai, mode) ==
    IF ~In(player, choices[mode])
    THEN [ret |-> "Invalid gesture", victories |-> NoTable]
    ELSE IF player = ai
    THEN [ret |-> "Tie", victories |-> NoTable]
    ELSE LET table == victories_table(mode)
         IN  [ret |-> IF In(ai, table[player]) THEN "Win" ELSE "Lose",
              victories |-> table]

\* lines 53-54 left out
determine_winner_no_tie(player, ai, mode) ==
    IF ~In(player, choices[mode]) \/ ~In(ai, choices[mode])
    THEN [ret |-> "Invalid gesture", victories |-> NoTable]
    ELSE LET table == victories_table(mode)
         IN  [ret |-> IF In(ai, table[player]) THEN "Win" ELSE "Lose",
              victories |-> table]

\* line 66 looking the AI's gesture up: the outcome from the AI's side
determine_winner_ai_side(player, ai, mode) ==
    IF ~In(player, choices[mode]) \/ ~In(ai, choices[mode])
    THEN [ret |-> "Invalid gesture", victories |-> NoTable]
    ELSE IF player = ai
    THEN [ret |-> "Tie", victories |-> NoTable]
    ELSE LET table == victories_table(mode)
         IN  [ret |-> IF In(player, table[ai]) THEN "Win" ELSE "Lose",
              victories |-> table]

\* The call of determine_winner: its return value and the victories dict it
\* built (NoTable when it returned before line 55).
determine_winner(player, ai, mode) ==
    IF ~In(player, choices[mode]) \/ ~In(ai, choices[mode])
    THEN [ret |-> "Invalid gesture", victories |-> NoTable]
    ELSE IF player = ai
    THEN [ret |-> "Tie", victories |-> NoTable]
    ELSE LET table == victories_table(mode)
         IN  [ret |-> IF In(ai, table[player]) THEN "Win" ELSE "Lose",
              victories |-> table]

----------------------------------------------------------------------------
(* detect_gesture *)

Fingers == {"thumb", "index", "middle", "ring", "pinky"}

tip_index ==
    [thumb |-> 4, index |-> 8, middle |-> 12, ring |-> 16, pinky |-> 20]
mcp_index ==
    [thumb |-> 2, index |-> 5, middle |-> 9, ring |-> 13, pinky |-> 17]

\* the indices lines 79-88 subscript the list with
ReadIndices == {tip_index[f] : f \in Fingers} \cup {mcp_index[f] : f \in Fingers}

\* list[i] of Python for i >= 0: IndexError unless i < len(list)
IndexOK(list, i) == i < Len(list)
At(list, i) == list[i + 1]

threshold == 5

\* a non-strict comparison
is_finger_extended_le(tip, mcp) == tip.y <= mcp.y - threshold

is_finger_extended(tip, mcp) == tip.y < mcp.y - threshold

\* line 109 without the test of the pinky
classify_spock_loose(index_extended, middle_extended, ring_extended, pinky_extended, mode) ==
    IF mode = "RPS"
    THEN IF ~index_extended /\ ~middle_extended /\ ~ring_extended /\ ~pinky_extended
         THEN "Rock"
         ELSE IF index_extended /\ middle_extended /\ ring_extended /\ pinky_extended
         THEN "Paper"
         ELSE IF index_extended /\ middle_extended /\ ~ring_extended /\ ~pinky_extended
         THEN "Scissors"
         ELSE None
    ELSE IF mode = "RPSLS"
    THEN IF ~index_extended /\ ~middle_extended /\ ring_extended /\ pinky_extended
         THEN "Lizard"
         ELSE IF index_extended /\ middle_extended /\ ~ring_extended
         THEN "Spock"
         ELSE IF ~index_extended /\ ~middle_extended /\ ~ring_extended /\ ~pinky_extended
         THEN "Rock"
         ELSE IF index_extended /\ middle_extended /\ ring_extended /\ pinky_extended
         THEN "Paper"
         ELSE IF index_extended /\ middle_extended /\ ~ring_extended /\ ~pinky_extended
         THEN "Scissors"
         ELSE None
    ELSE None

\* the five-gesture branch taken whatever the game mode
classify_any_mode(index_extended, middle_extended, ring_extended, pinky_extended, mode) ==
    IF ~index_extended /\ ~middle_extended /\ ring_extended /\ pinky_extended
    THEN "Lizard"
    ELSE IF index_extended /\ middle_extended /\ ~ring_extended /\ pinky_extended
    THEN "Spock"
    ELSE IF ~index_extended /\ ~middle_extended /\ ~ring_extended /\ ~pinky_extended
    THEN "Rock"
    ELSE IF index_extended /\ middle_extended /\ ring_extended /\ pinky_extended
    THEN "Paper"
    ELSE IF index_extended /\ middle_extended /\ ~ring_extended /\ ~pinky_extended
    THEN "Scissors"
    ELSE None

\* lines 99-117: the label for the four extension states
classify(index_extended, middle_extended, ring_extended, pinky_extended, mode) ==
    IF mode = "RPS"
    THEN IF ~index_extended /\ ~middle_extended /\ ~ring_extended /\ ~pinky_extended
         THEN "Rock"
         ELSE IF index_extended /\ middle_extended /\ ring_extended /\ pinky_extended
         THEN "Paper"
         ELSE IF index_extended /\ middle_extended /\ ~ring_extended /\ ~pinky_extended
         THEN "Scissors"
         ELSE None
    ELSE IF mode = "RPSLS"
    THEN IF ~index_extended /\ ~middle_extended /\ ring_extended /\ pinky_extended
         THEN "Lizard"
         ELSE IF index_extended /\ middle_extended /\ ~ring_extended /\ pinky_extended
         THEN "Spock"
         ELSE IF ~index_extended /\ ~middle_extended /\ ~ring_extended /\ ~pinky_extended
         THEN "Rock"
         ELSE IF index_extended /\ middle_extended /\ ring_extended /\ pinky_extended
         THEN "Paper"
         ELSE IF index_extended /\ middle_extended /\ ~ring_extended /\ ~pinky_extended
         THEN "Scissors"
         ELSE None
    ELSE None

\* a call that rejects every list that has not exactly 21 landmarks
detect_gesture_exact_count(list, mode) ==
    IF Len(list) # NumLandmarks
    THEN [raised |-> "IndexError", ret |-> NoReturn, extended |-> NoLocals]
    ELSE LET ext == [f \in Fingers |->
                        is_finger_extended(At(list, tip_index[f]),
                                           At(list, mcp_index[f]))]
         IN  [raised |-> NoError,
              ret |-> classify(ext["index"], ext["middle"], ext["ring"],
                               ext["pinky"], mode),
              extended |-> ext]

\* a call whose Rock also needs the thumb folded
detect_gesture_thumb(list, mode) ==
    IF \E i \in ReadIndices : ~IndexOK(list, i)
    THEN [raised |-> "IndexError", ret |-> NoReturn, extended |-> NoLocals]
    ELSE LET ext == [f \in Fingers |->
                        is_finger_extended(At(list, tip_index[f]),
                                           At(list, mcp_index[f]))]
             label == classify(ext["index"], ext["middle"], ext["ring"],
                               ext["pinky"], mode)
         IN  [raised |-> NoError,
              ret |-> IF label = "Rock" /\ ext["thumb"] THEN None ELSE label,
              extended |-> ext]

\* The call of detect_gesture: the exception it raised or its return value,
\* and the five extension states it computed.
detect_gesture(list, mode) ==
    IF \E i \in ReadIndices : ~IndexOK(list, i)
    THEN [raised |-> "IndexError", ret |-> NoReturn, extended |-> NoLocals]
    ELSE LET ext == [f \in Fingers |->
                        is_finger_extended(At(list, tip_index[f]),
                                           At(list, mcp_index[f]))]
         IN  [raised |-> NoError,
              ret |-> classify(ext["index"], ext["middle"], ext["ring"],
                               ext["pinky"], mode),
              extended |-> ext]

----------------------------------------------------------------------------
(* Inputs *)

LandmarkCounts == (NumLandmarks - MissingMax)..(NumLandmarks + ExtraMax)

\* a landmark list of n points whose fingertips and knuckles have the given
\* y coordinates; x and z are never read and are left out
MkLandmarks(n, tips, mcps) ==
    [i \in 1..n |->
        IF \E f \in Fingers : tip_index[f] = i - 1
        THEN [y |-> tips[CHOOSE f \in Fingers : tip_index[f] = i - 1]]
        ELSE IF \E f \in Fingers : mcp_index[f] = i - 1
        THEN [y |-> mcps[CHOOSE f \in Fingers : mcp_index[f] = i - 1]]
        ELSE [y |-> RestY]]

LandmarkInputs ==
    {MkLandmarks(n, tips, mcps) :
        n \in LandmarkCounts, tips \in [Fingers -> TipYs], mcps \in [Fingers -> McpYs]}

InitDetect ==
    /\ call = "detect_gesture"
    /\ pc = "entry"
    /\ landmarks \in LandmarkInputs
    /\ game_mode \in GameModes
    /\ player_choice = None
    /\ ai_choice = None
    /\ ret = NoReturn
    /\ raised = NoError
    /\ extended = NoLocals
    /\ victories = NoTable

InitDetermine ==
    /\ call = "determine_winner"
    /\ pc = "entry"
    /\ landmarks = <<>>
    /\ game_mode \in GameModes
    /\ player_choice \in Labels
    /\ ai_choice \in Labels
    /\ ret = NoReturn
    /\ raised = NoError
    /\ extended = NoLocals
    /\ victories = NoTable

Init == InitDetect \/ InitDetermine

----------------------------------------------------------------------------
(* Actions *)

DetectGesture ==
    /\ call = "detect_gesture"
    /\ pc = "entry"
    /\ LET r == detect_gesture(landmarks, game_mode)
       IN  /\ pc' = IF r.raised = NoError THEN "returned" ELSE "raised"
           /\ ret' = r.ret
           /\ raised' = r.raised
           /\ extended' = r.extended
    /\ UNCHANGED <<call, landmarks, game_mode, player_choice, ai_choice, victories>>

DetermineWinner ==
    /\ call = "determine_winner"
    /\ pc = "entry"
    /\ LET r == determine_winner(player_choice, ai_choice, game_mode)
       IN  /\ pc' = "returned"
           /\ ret' = r.ret
           /\ victories' = r.victories
    /\ UNCHANGED <<call, landmarks, game_mode, player_choice, ai_choice,
                   raised, extended>>

Next == DetectGesture \/ DetermineWinner

Spec == Init /\ [][Next]_vars

TypeOK ==
    /\ call \in {"detect_gesture", "determine_winner"}
    /\ pc \in {"entry", "returned", "raised"}
    /\ game_mode \in GameModes

----------------------------------------------------------------------------
(* The specification's tables, as the specification words them *)

\* gesture vocabulary of a rule set
Vocabulary(rs) ==
    IF rs = "RPS" THEN {"Rock", "Paper", "Scissors"}
    ELSE {"Rock", "Paper", "Scissors", "Lizard", "Spock"}

\* victory table: gesture -> the gestures it defeats
Defeats(rs, g) ==
    IF rs = "RPS"
    THEN CASE g = "Rock" -> {"Scissors"}
           [] g = "Paper" -> {"Rock"}
           [] g = "Scissors" -> {"Paper"}
           [] OTHER -> {}
    ELSE CASE g = "Rock" -> {"Scissors", "Lizard"}
           [] g = "Paper" -> {"Rock", "Spock"}
           [] g = "Scissors" -> {"Paper", "Lizard"}
           [] g = "Lizard" -> {"Spock", "Paper"}
           [] g = "Spock" -> {"Scissors", "Rock"}
           [] OTHER -> {}

\* pattern table: (index, middle, ring, pinky) -> label
PatternLabel(rs, v) ==
    CASE v = <<FALSE, FALSE, FALSE, FALSE>> -> "Rock"
      [] v = <<TRUE, TRUE, TRUE, TRUE>> -> "Paper"
      [] v = <<TRUE, TRUE, FALSE, FALSE>> -> "Scissors"
      [] v = <<FALSE, FALSE, TRUE, TRUE>> /\ rs = "RPSLS" -> "Lizard"
      [] v = <<TRUE, TRUE, FALSE, TRUE>> /\ rs = "RPSLS" -> "Spock"
      [] OTHER -> None

Returned(f) == call = f /\ pc = "returned"

\* the y coordinate the call was given at Python index i
Y(i) == At(landmarks, i).y

\* the finger is raised strictly above its knuckle by more than the margin
Above(f) == Y(tip_index[f]) + 5 < Y(mcp_index[f])

\* the (index, middle, ring, pinky) vector of the landmarks
Vector == <<Above("index"), Above("middle"), Above("ring"), Above("pinky")>>

----------------------------------------------------------------------------
(* Round resolver *)

\* C1: with a label outside the rule set's vocabulary on either side,
\* determine_winner returns "Invalid gesture" and has built no victory table.
C1_InvalidOutsideVocabulary ==
    (Returned("determine_winner")
      /\ (player_choice \notin Vocabulary(game_mode)
            \/ ai_choice \notin Vocabulary(game_mode)))
    => (ret = "Invalid gesture" /\ victories = NoTable)

C1_Witness ==
    /\ Returned("determine_winner")
    /\ game_mode = "RPS"
    /\ player_choice = "Lizard"
    /\ ai_choice = "Rock"
    /\ ret = "Invalid gesture"

\* C2: for two gestures of the vocabulary the result is "Tie" exactly when
\* they are equal.
C2_TieIffEqual ==
    (Returned("determine_winner")
      /\ player_choice \in Vocabulary(game_mode)
      /\ ai_choice \in Vocabulary(game_mode))
    => ((ret = "Tie") <=> (player_choice = ai_choice))

C2_Witness ==
    /\ Returned("determine_winner")
    /\ game_mode = "RPSLS"
    /\ player_choice = "Spock"
    /\ ai_choice = "Spock"
    /\ ret = "Tie"

\* C3: for two distinct gestures of the vocabulary, one direction is "Win"
\* and the other is "Lose".
C3_Antisymmetry ==
    (Returned("determine_winner")
      /\ player_choice \in Vocabulary(game_mode)
      /\ ai_choice \in Vocabulary(game_mode)
      /\ player_choice # ai_choice)
    => LET back == determine_winner(ai_choice, player_choice, game_mode).ret
       IN  \/ ret = "Win" /\ back = "Lose"
           \/ ret = "Lose" /\ back = "Win"

C3_Witness ==
    /\ Returned("determine_winner")
    /\ game_mode = "RPSLS"
    /\ player_choice = "Lizard"
    /\ ai_choice = "Scissors"
    /\ ret = "Lose"

\* C4: for two distinct gestures of the vocabulary the result is "Win" when
\* the AI's gesture is in the player's defeat-set of the specified victory
\* table, and "Lose" otherwise.
C4_WinPerVictoryTable ==
    (Returned("determine_winner")
      /\ player_choice \in Vocabulary(game_mode)
      /\ ai_choice \in Vocabulary(game_mode)
      /\ player_choice # ai_choice)
    => ret = (IF ai_choice \in Defeats(game_mode, player_choice)
              THEN "Win" ELSE "Lose")

C4_Witness ==
    /\ Returned("determine_winner")
    /\ game_mode = "RPSLS"
    /\ player_choice = "Spock"
    /\ ai_choice = "Rock"
    /\ ret = "Win"

\* C8: the victory table a call built has the vocabulary as its keys, and
\* each gesture defeats exactly 1 (RPS) or 2 (RPSLS) gestures, all of them
\* other gestures of the vocabulary.
C8_DefeatSetSizes ==
    (Returned("determine_winner") /\ victories # NoTable)
    => /\ DOMAIN victories = Vocabulary(game_mode)
       /\ \A g \in DOMAIN victories :
            /\ Cardinality(Range(victories[g]))
                 = (IF game_mode = "RPS" THEN 1 ELSE 2)
            /\ Len(victories[g]) = Cardinality(Range(victories[g]))
            /\ g \notin Range(victories[g])
            /\ Range(victories[g]) \subseteq Vocabulary(game_mode)

C8_Witness ==
    /\ Returned("determine_winner")
    /\ game_mode = "RPSLS"
    /\ victories # NoTable
    /\ Cardinality(Range(victories["Lizard"])) = 2

----------------------------------------------------------------------------
(* Gesture classifier *)

\* C5: detect_gesture returns the label the pattern table gives for the
\* (index, middle, ring, pinky) vector under the rule set, None for a vector
\* the rule set does not list.
C5_PatternTable ==
    Returned("detect_gesture") => ret = PatternLabel(game_mode, Vector)

C5_Witness ==
    /\ Returned("detect_gesture")
    /\ game_mode = "RPS"
    /\ Vector = <<TRUE, TRUE, FALSE, TRUE>>
    /\ ret = None

\* C6: a result other than None is in the rule set's vocabulary, and
\* determine_winner never answers "Invalid gesture" to it against an AI
\* gesture of the vocabulary.
C6_DetectedInVocabulary ==
    (Returned("detect_gesture") /\ ret # None)
    => /\ ret \in Vocabulary(game_mode)
       /\ \A ai \in Vocabulary(game_mode) :
            determine_winner(ret, ai, game_mode).ret # "Invalid gesture"

C6_Witness ==
    /\ Returned("detect_gesture")
    /\ game_mode = "RPSLS"
    /\ Len(landmarks) = NumLandmarks
    /\ ret = "Lizard"

\* a landmark list the specification calls malformed: not 21 points, or a
\* coordinate outside [0,1]
Malformed ==
    \/ Len(landmarks) # NumLandmarks
    \/ \E i \in DOMAIN landmarks :
         landmarks[i].y < CoordMin \/ landmarks[i].y > CoordMax

Finished(f) == call = f /\ pc # "entry"

WithThumb(t, m) ==
    [landmarks EXCEPT ![tip_index["thumb"] + 1] = [y |-> t],
                      ![mcp_index["thumb"] + 1] = [y |-> m]]

\* C9: a landmark list that differs only in the thumb's landmarks gets the
\* same result.
C9_ThumbIgnored ==
    Returned("detect_gesture")
    => \A t \in TipYs, m \in McpYs :
          detect_gesture(WithThumb(t, m), game_mode).ret = ret

C9_Witness ==
    /\ Returned("detect_gesture")
    /\ extended["thumb"]
    /\ ret = "Rock"
    /\ ~detect_gesture(WithThumb(45, 50), game_mode).extended["thumb"]

\* C10: a finger's extension state is true exactly when its tip is above
\* its knuckle by strictly more than the margin, and a hand with no finger
\* of the four above the margin is Rock in both rule sets.
C10_ExtensionMargin ==
    Returned("detect_gesture")
    => /\ \A f \in Fingers : extended[f] <=> Above(f)
       /\ (\A f \in Fingers \ {"thumb"} : Y(tip_index[f]) >= Y(mcp_index[f]) - 5)
            => ret = "Rock"

C10_Witness ==
    /\ Returned("detect_gesture")
    /\ \A f \in Fingers \ {"thumb"} : Y(tip_index[f]) = Y(mcp_index[f]) - 5
    /\ ret = "Rock"
====
